---------------------------- MODULE Spec2Model ----------------------------
(***************************************************************************)
(* BiblioAI front end: the Books page (catalog loader with fallback to the *)
(* built-in dataset, and the client-side search filter), the book card,    *)
(* the login form, the navigation bar and the request interceptor.         *)
(*                                                                         *)
(* JavaScript values are tagged records [t |-> tag, v |-> payload]; a      *)
(* string's payload is the sequence of its characters, so toLowerCase and  *)
(* includes are computed character by character.  An evaluation that       *)
(* throws yields the value TypeError.                                       *)
(***************************************************************************)
EXTENDS Integers, Sequences, FiniteSets

VARIABLES
    mounted,        \* the Books view is mounted (route /books is shown)
    mounts,         \* number of mounts so far; the mounted instance is instance `mounts`
    books,          \* useState([])     : the catalog of the mounted instance
    loading,        \* useState(true)
    viewMode,       \* useState('grid')
    searchTerm,     \* useState('')
    filteredBooks,  \* the value of `filteredBooks` in the last render, or TypeError
    response,       \* what booksAPI.getAll() settled with for the mounted instance
    issued,         \* issued[i]  : getAll() requests instance i has issued
    pending,        \* pending[i] : getAll() requests of instance i still in flight
    settled,        \* settled[i] : how the request of instance i settled ("none" before)
    toasts,         \* the texts passed to toast.error by fetchBooks, in order
    tornDownSets,   \* state-setter calls made on instances that were unmounted
    cards,          \* what each BookCard of the last render of Books shows
    location,       \* the path the router shows
    token,          \* localStorage entry 'token' (Null when there is none)
    isLoggedIn,     \* Navbar: useState(!!localStorage.getItem('token'))
    isLogin,        \* LoginForm: useState(true)
    isLoading,      \* LoginForm: useState(false)
    formData,       \* LoginForm: useState({email, password, name, phone})
    authRequests,   \* the login / register requests issued, in order
    lastRequest,    \* the request that last left the interceptor
    notices,        \* toast calls of LoginForm and Navbar: how many, and the last one
    lastAuth,       \* how the auth request that settled last settled
    rejections      \* handleSubmit promises that ended rejected

vars == <<mounted, mounts, books, loading, viewMode, searchTerm, filteredBooks,
          response, issued, pending, settled, toasts, tornDownSets, cards,
          location, token, isLoggedIn, isLogin, isLoading, formData,
          authRequests, lastRequest, notices, lastAuth, rejections>>

\* the session: persisted storage and the Navbar
sessionVars == <<token, isLoggedIn>>

\* the state of the LoginForm instance
formVars == <<isLogin, isLoading, formData>>

\* the auth requests and what they left behind
authVars == <<authRequests, notices, lastAuth, rejections>>

appVars == <<location, sessionVars, formVars, authVars, lastRequest>>

booksLog == <<mounts, issued, pending, settled, toasts, tornDownSets>>

booksView ==
    <<mounted, books, loading, viewMode, searchTerm, filteredBooks, response, cards>>

----------------------------------------------------------------------------
(* Bounds of the model *)

\* mounts of the Books view in one run
MaxMounts == 2
\* submits of the login form in one run
MaxSubmits == 2
\* longest array a response carries
MaxCatalogLen == 2

----------------------------------------------------------------------------
(* JavaScript values *)

Undefined == [t |-> "undefined"]
Null == [t |-> "null"]
TypeError == [t |-> "throw"]
Str(s) == [t |-> "string", v |-> s]
Num(n) == [t |-> "number", v |-> n]
Arr(a) == [t |-> "array", v |-> a]
Obj(f) == [t |-> "object", v |-> f]

EmptyStr == Str(<< >>)

\* ToBoolean(x), as `x && ...` and `x ? a : b` apply it
Truthy(x) ==
    CASE x.t = "undefined" -> FALSE
      [] x.t = "null" -> FALSE
      [] x.t = "string" -> Len(x.v) > 0
      [] x.t = "number" -> x.v # 0
      [] x.t = "array" -> TRUE
      [] x.t = "object" -> TRUE

\* Array.isArray(x)
IsArray(x) == x.t = "array"

\* x.k : a property read; reading a property of null or undefined throws
Get(x, k) ==
    CASE x.t \in {"undefined", "null", "throw"} -> TypeError
      [] x.t = "object" -> IF k \in DOMAIN x.v THEN x.v[k] ELSE Undefined
      [] x.t \in {"array", "string"} -> IF k = "length" THEN Num(Len(x.v)) ELSE Undefined
      [] x.t = "number" -> Undefined

\* x?.k : optional chaining
OptGet(x, k) == IF x.t \in {"undefined", "null"} THEN Undefined ELSE Get(x, k)

\* x > 0 for the values a `length` read yields here: undefined > 0 is false
GreaterThanZero(x) ==
    CASE x.t = "number" -> x.v > 0
      [] x.t \in {"undefined", "null"} -> FALSE

----------------------------------------------------------------------------
(* Characters and strings *)

UpperChars ==
    <<"A", "B", "C", "D", "E", "F", "G", "H", "I", "J", "K", "L", "M",
      "N", "O", "P", "Q", "R", "S", "T", "U", "V", "W", "X", "Y", "Z">>

LowerChars ==
    <<"a", "b", "c", "d", "e", "f", "g", "h", "i", "j", "k", "l", "m",
      "n", "o", "p", "q", "r", "s", "t", "u", "v", "w", "x", "y", "z">>

LowerChar(c) ==
    IF \E i \in DOMAIN UpperChars : UpperChars[i] = c
    THEN LowerChars[CHOOSE i \in DOMAIN UpperChars : UpperChars[i] = c]
    ELSE c

\* String.prototype.toLowerCase on a sequence of characters
ToLowerCase(s) == [i \in 1..Len(s) |-> LowerChar(s[i])]

\* String.prototype.includes: t occurs in s as a contiguous run
Includes(s, t) ==
    \E i \in 0..(Len(s) - Len(t)) : SubSeq(s, i + 1, i + Len(t)) = t

----------------------------------------------------------------------------
(* The built-in dataset (id, title, author, genre, rating of each record). *)
(* A rating is held in tenths: 4.2 is Num(42).                             *)

MockBook1 ==
    Obj([id |-> Num(1),
         title |-> Str(<<"T", "h", "e", " ", "G", "r", "e", "a", "t", " ", "G", "a", "t", "s", "b", "y">>),
         author |-> Str(<<"F", ".", " ", "S", "c", "o", "t", "t", " ", "F", "i", "t", "z", "g", "e", "r", "a", "l", "d">>),
         genre |-> Str(<<"C", "l", "a", "s", "s", "i", "c">>),
         rating |-> Num(42)])

MockBook2 ==
    Obj([id |-> Num(2),
         title |-> Str(<<"T", "o", " ", "K", "i", "l", "l", " ", "a", " ", "M", "o", "c", "k", "i", "n", "g", "b", "i", "r", "d">>),
         author |-> Str(<<"H", "a", "r", "p", "e", "r", " ", "L", "e", "e">>),
         genre |-> Str(<<"F", "i", "c", "t", "i", "o", "n">>),
         rating |-> Num(43)])

MockBook3 ==
    Obj([id |-> Num(3),
         title |-> Str(<<"1", "9", "8", "4">>),
         author |-> Str(<<"G", "e", "o", "r", "g", "e", " ", "O", "r", "w", "e", "l", "l">>),
         genre |-> Str(<<"D", "y", "s", "t", "o", "p", "i", "a", "n">>),
         rating |-> Num(42)])

MockBook4 ==
    Obj([id |-> Num(4),
         title |-> Str(<<"P", "r", "i", "d", "e", " ", "a", "n", "d", " ", "P", "r", "e", "j", "u", "d", "i", "c", "e">>),
         author |-> Str(<<"J", "a", "n", "e", " ", "A", "u", "s", "t", "e", "n">>),
         genre |-> Str(<<"R", "o", "m", "a", "n", "c", "e">>),
         rating |-> Num(43)])

MockBook5 ==
    Obj([id |-> Num(5),
         title |-> Str(<<"T", "h", "e", " ", "H", "o", "b", "b", "i", "t">>),
         author |-> Str(<<"J", ".", "R", ".", "R", ".", " ", "T", "o", "l", "k", "i", "e", "n">>),
         genre |-> Str(<<"F", "a", "n", "t", "a", "s", "y">>),
         rating |-> Num(43)])

MockBook6 ==
    Obj([id |-> Num(6),
         title |-> Str(<<"H", "a", "r", "r", "y", " ", "P", "o", "t", "t", "e", "r", " ", "a", "n", "d", " ", "t", "h", "e", " ", "P", "h", "i", "l", "o", "s", "o", "p", "h", "e", "r", "'", "s", " ", "S", "t", "o", "n", "e">>),
         author |-> Str(<<"J", ".", "K", ".", " ", "R", "o", "w", "l", "i", "n", "g">>),
         genre |-> Str(<<"F", "a", "n", "t", "a", "s", "y">>),
         rating |-> Num(45)])

MOCK_BOOKS ==
    Arr(<<MockBook1, MockBook2, MockBook3, MockBook4, MockBook5, MockBook6>>)

\* the text of the notice of the failure path
DemoNotice == "Using demo data. Backend connection failed."


----------------------------------------------------------------------------
(* The search filter: the expression bound to `filteredBooks` in a render *)

\* FieldIncludes without the two toLowerCase calls: a case-sensitive search
FieldIncludesCaseSensitive(book, k, term) ==
    LET f == Get(book, k)
    IN  CASE f.t = "throw" -> "throw"
          [] f.t \in {"undefined", "null"} -> "false"
          [] f.t = "string" -> IF Includes(f.v, term.v) THEN "true" ELSE "false"
          [] OTHER -> "throw"

\* book.k?.toLowerCase().includes(searchTerm.toLowerCase())
\*   "true" / "false" (false or undefined) / "throw"
FieldIncludes(book, k, term) ==
    LET f == Get(book, k)
    IN  CASE f.t = "throw" -> "throw"
          [] f.t \in {"undefined", "null"} -> "false"
          [] f.t = "string" ->
                IF Includes(ToLowerCase(f.v), ToLowerCase(term.v)) THEN "true" ELSE "false"
          [] OTHER -> "throw"

\* the arrow function given to filter: title || author || genre, left to right,
\* a later operand evaluated only when the earlier ones are falsy
BookMatches(book, term) ==
    LET a == FieldIncludes(book, "title", term)
    IN  IF a # "false" THEN a
        ELSE LET b == FieldIncludes(book, "author", term)
             IN  IF b # "false" THEN b
                 ELSE FieldIncludes(book, "genre", term)

\* FilterLoop written as removal in place while walking forward: after a
\* removal the next element slides into the current slot and is never tested
RECURSIVE FilterLoopSplicing(_, _, _, _)
FilterLoopSplicing(a, term, k, acc) ==
    IF k > Len(a) THEN Arr(acc)
    ELSE LET m == BookMatches(a[k], term)
         IN  IF m = "throw" THEN TypeError
             ELSE IF m = "true" THEN FilterLoopSplicing(a, term, k + 1, Append(acc, a[k]))
             ELSE IF k + 1 <= Len(a)
                  THEN FilterLoopSplicing(a, term, k + 2, Append(acc, a[k + 1]))
                  ELSE Arr(acc)

\* Array.prototype.filter: elements 1..Len(a) in order, kept when the callback
\* is truthy; a throwing callback ends the whole call
RECURSIVE FilterLoop(_, _, _, _)
FilterLoop(a, term, k, acc) ==
    IF k > Len(a) THEN Arr(acc)
    ELSE LET m == BookMatches(a[k], term)
         IN  IF m = "throw" THEN TypeError
             ELSE FilterLoop(a, term, k + 1, IF m = "true" THEN Append(acc, a[k]) ELSE acc)

\* books.filter(book => ...): a value without a filter method throws
FilterBooks(b, term) ==
    IF IsArray(b) THEN FilterLoop(b.v, term, 1, << >>) ELSE TypeError

----------------------------------------------------------------------------
(* BookCard: the stars and the rating label of one card *)

Digits == <<"0", "1", "2", "3", "4", "5", "6", "7", "8", "9">>

\* Number.prototype.toFixed(1) of a number held in tenths (below 10.0)
ToFixed1(tenths) == <<Digits[(tenths \div 10) + 1], ".", Digits[(tenths % 10) + 1]>>

\* book.rating || 4 : the rating unless it is falsy
RatingOrDefault(book) ==
    LET r == Get(book, "rating")
    IN  IF Truthy(r) THEN r ELSE Num(40)

\* [...Array(5)].map((_, i) => i < Math.floor(book.rating || 4) ...): the
\* number of filled stars, and (book.rating || 4.0).toFixed(1): the label
BookCard(book) ==
    LET shown == RatingOrDefault(book).v
    IN  [stars |-> Cardinality({i \in 0..4 : i < shown \div 10}),
         label |-> Str(ToFixed1(shown))]

\* filteredBooks.map(book => <BookCard ... />): no card while the spinner is
\* returned or when the render threw before reaching the list
Cards(fb, ld) ==
    IF ld \/ fb.t # "array" THEN << >>
    ELSE [k \in 1..Len(fb.v) |-> BookCard(fb.v[k])]

----------------------------------------------------------------------------
(* fetchBooks, from the point where booksAPI.getAll() has settled *)

\* TryBody without the flat-array branch: only {books: [...]} is read
TryBodyNestedOnly(data) ==
    LET b == OptGet(data, "books")
    IN  IF Truthy(b)
        THEN LET len == Get(Get(data, "books"), "length")
             IN  IF len = TypeError THEN TypeError
                 ELSE IF GreaterThanZero(len) THEN Get(data, "books")
                 ELSE MOCK_BOOKS
        ELSE MOCK_BOOKS

\* TryBody whose nested branch lacks the length test: {books: []} is accepted
TryBodyAcceptsEmpty(data) ==
    IF Truthy(data) /\ IsArray(data) /\ GreaterThanZero(Get(data, "length"))
    THEN data
    ELSE LET b == OptGet(data, "books")
         IN  IF Truthy(b) THEN Get(data, "books") ELSE MOCK_BOOKS

\* the body of the try block after the await: the value given to setBooks,
\* or TypeError when a statement of the block throws
TryBody(data) ==
    IF Truthy(data) /\ IsArray(data) /\ GreaterThanZero(Get(data, "length"))
    THEN data
    ELSE LET b == OptGet(data, "books")
         IN  IF Truthy(b)
             THEN LET len == Get(Get(data, "books"), "length")
                  IN  IF len = TypeError THEN TypeError
                      ELSE IF GreaterThanZero(len) THEN Get(data, "books")
                      ELSE MOCK_BOOKS
             ELSE MOCK_BOOKS

\* FetchBooks raising the notice on every use of the mock data, the silent
\* substitution of the else branch included
FetchBooksNoticeOnFallback(resp) ==
    LET r == IF resp.ok THEN TryBody(resp.data) ELSE TypeError
    IN  IF r = TypeError \/ r = MOCK_BOOKS
        THEN [books |-> MOCK_BOOKS, notices |-> <<DemoNotice>>]
        ELSE [books |-> r, notices |-> << >>]

\* try / catch: a rejected request or a throw in the try block reaches the
\* catch, which sets the mock data and raises the notice
FetchBooks(resp) ==
    LET r == IF resp.ok THEN TryBody(resp.data) ELSE TypeError
    IN  IF r = TypeError
        THEN [books |-> MOCK_BOOKS, notices |-> <<DemoNotice>>]
        ELSE [books |-> r, notices |-> << >>]

----------------------------------------------------------------------------
(* What the backend may answer *)

Dune ==
    Obj([id |-> Num(1),
         title |-> Str(<<"D", "u", "n", "e">>),
         author |-> Str(<<"H", "e", "r", "b", "e", "r", "t">>),
         genre |-> Str(<<"S", "c", "i", "-", "F", "i">>)])

\* a record with title, author and genre all absent
Bare == Obj([id |-> Num(7)])

\* null title, upper-case author, empty genre, rating 0
Untitled ==
    Obj([id |-> Num(8),
         title |-> Null,
         author |-> Str(<<"T", "O", "L", "K", "I", "E", "N">>),
         genre |-> EmptyStr,
         rating |-> Num(0)])

\* a record whose author is a number; rating 3.5
NumAuthor ==
    Obj([id |-> Num(9),
         title |-> Str(<<"D", "u", "n", "e">>),
         author |-> Num(42),
         rating |-> Num(35)])

SampleElements == {Dune, MockBook5, Bare, Untitled, NumAuthor, Null}

SeqsUpTo(S, n) == UNION {[1..k -> S] : k \in 0..n}

Success(body) == [ok |-> TRUE, why |-> "2xx", data |-> body]
Failure(why) == [ok |-> FALSE, why |-> why, data |-> Undefined]
NoResponse == [ok |-> FALSE, why |-> "none", data |-> Undefined]

FlatBodies == {Arr(c) : c \in SeqsUpTo(SampleElements, MaxCatalogLen)}

NestedBodies == {Obj([books |-> Arr(c)]) : c \in SeqsUpTo(SampleElements, 1)}

OtherBodies ==
    { Null,
      Undefined,
      Obj(<< >>),
      EmptyStr,
      Str(<<"a", "b", "c">>),
      Obj([books |-> Null]),
      Obj([books |-> Num(5)]),
      Obj([books |-> Str(<<"a", "b", "c">>)]),
      Obj([books |-> Obj([length |-> Num(2)])]) }

Bodies == FlatBodies \cup NestedBodies \cup OtherBodies

Responses ==
    {Success(b) : b \in Bodies} \cup {Failure("network"), Failure("non-2xx")}

SearchTerms ==
    { EmptyStr,
      Str(<<"t", "o", "l", "k", "i", "e", "n">>),
      Str(<<"D", "U", "N", "E">>),
      Str(<<"f", "i">>) }

ViewModes == {"grid", "list"}

Instances == 1..MaxMounts

----------------------------------------------------------------------------
(* The request interceptor and the API functions *)

Paths == {"/", "/books", "/login", "/dashboard", "/recommendations"}

Bearer == <<"B", "e", "a", "r", "e", "r", " ">>

\* Interceptor without the `if (token)` test: the header is always set
InterceptorUnconditional(config) ==
    [config EXCEPT !.auth =
        Str(Bearer \o (IF token = Null THEN <<"n", "u", "l", "l">> ELSE token.v))]

\* api.interceptors.request: localStorage.getItem('token') is read when the
\* request is passed through, and the header is set only for a truthy token
Interceptor(config) ==
    IF Truthy(token)
    THEN [config EXCEPT !.auth = Str(Bearer \o token.v)]
    ELSE config

\* api.get(url) / api.post(url, ...): the request as it leaves the client
Sent(url) ==
    Interceptor([n |-> lastRequest.n + 1, url |-> url, auth |-> Undefined])

\* authAPI.login and authAPI.register
AuthUrl(mode) == IF mode = "login" THEN "/auth/login" ELSE "/auth/register"

----------------------------------------------------------------------------
(* The login form: handleSubmit *)

EmptyForm ==
    [email |-> EmptyStr, password |-> EmptyStr, name |-> EmptyStr, phone |-> EmptyStr]

\* what a field of the form may hold
FieldValues == {EmptyStr, Str(<<"x">>)}

LoginSuccessful == Str(<<"L", "o", "g", "i", "n", " ", "s", "u", "c", "c", "e", "s", "s", "f", "u", "l",
          "!">>)

RegistrationSuccessful == Str(<<"R", "e", "g", "i", "s", "t", "r", "a", "t", "i", "o", "n", " ", "s", "u", "c",
          "c", "e", "s", "s", "f", "u", "l", "!">>)

LoggedOut == Str(<<"L", "o", "g", "g", "e", "d", " ", "o", "u", "t", " ", "s", "u", "c", "c", "e",
          "s", "s", "f", "u", "l", "l", "y">>)

AnErrorOccurred == Str(<<"A", "n", " ", "e", "r", "r", "o", "r", " ", "o", "c", "c", "u", "r", "r", "e",
          "d">>)

\* x[i] of JavaScript (0-based); reading an index of null or undefined throws
Index(x, i) ==
    CASE x.t \in {"undefined", "null", "throw"} -> TypeError
      [] x.t = "array" -> IF i + 1 <= Len(x.v) THEN x.v[i + 1] ELSE Undefined
      [] OTHER -> Undefined

\* `${x}` : the characters a template literal puts for x
TemplateChars(x) ==
    CASE x.t = "string" -> x.v
      [] x.t = "undefined" -> <<"u", "n", "d", "e", "f", "i", "n", "e", "d">>
      [] x.t = "null" -> <<"n", "u", "l", "l">>

\* err => `${err.loc[1]}: ${err.msg}` ; TypeError when err.loc cannot be indexed
FieldMessage(err) ==
    LET field == Index(Get(err, "loc"), 1)
    IN  IF field = TypeError THEN TypeError
        ELSE Str(TemplateChars(field) \o <<":", " ">> \o TemplateChars(Get(err, "msg")))

\* detail.map(...).join(', ') from element k on; a throwing callback ends it
RECURSIVE JoinFieldMessages(_, _)
JoinFieldMessages(detail, k) ==
    IF k > Len(detail) THEN EmptyStr
    ELSE LET head == FieldMessage(detail[k])
             rest == JoinFieldMessages(detail, k + 1)
         IN  IF head = TypeError \/ rest = TypeError THEN TypeError
             ELSE IF k = Len(detail) THEN head
             ELSE Str(head.v \o <<",", " ">> \o rest.v)

\* the catch block up to the toast: the value of errorMessage, or TypeError
\* when the block itself throws
ErrorMessage(error) ==
    LET data == OptGet(Get(error, "response"), "data")
    IN  IF Truthy(data)
        THEN IF IsArray(Get(data, "detail"))
             THEN JoinFieldMessages(Get(data, "detail").v, 1)
             ELSE IF Truthy(Get(data, "detail")) THEN Get(data, "detail")
             ELSE IF Truthy(Get(data, "message")) THEN Get(data, "message")
             ELSE AnErrorOccurred
        ELSE IF Truthy(Get(error, "message")) THEN Get(error, "message")
        ELSE AnErrorOccurred

\* localStorage.setItem('token', v): the value is stored as a string
Stored(v) == Str(TemplateChars(v))

----------------------------------------------------------------------------
(* What the auth endpoints may answer *)

OldToken == Str(<<"o", "l", "d">>)

NewToken == Str(<<"n", "e", "w">>)

\* a 2xx answer: the envelope with the access token
AuthSuccess(tok) ==
    [ok |-> TRUE,
     data |-> Obj([access_token |-> tok, token_type |-> Str(<<"b", "e", "a", "r", "e", "r">>)]),
     error |-> Undefined]

\* a rejected request: the error object axios throws
AuthFailure(error) == [ok |-> FALSE, data |-> Undefined, error |-> error]

\* how an auth request settled, as far as the session is concerned
Outcome(resp) ==
    [why |-> IF resp.ok THEN "2xx" ELSE "rejected",
     token |-> IF resp.ok THEN Get(resp.data, "access_token") ELSE Undefined]

NoAuth == [why |-> "none", token |-> Undefined]

HttpError(body) ==
    Obj([response |-> Obj([data |-> body]),
         message |-> Str(<<"4", "x", "x">>)])

NetworkError == Obj([message |-> Str(<<"N", "e", "t", "w", "o", "r", "k">>)])

ValidationItem(field, msg) ==
    Obj([loc |-> Arr(<<Str(<<"b", "o", "d", "y">>), Str(field)>>), msg |-> Str(msg)])

AuthErrors ==
    { NetworkError,
      HttpError(Obj([detail |-> Str(<<"d", "e", "n", "i", "e", "d">>)])),
      HttpError(Obj([detail |-> Arr(<<ValidationItem(<<"e", "m", "a", "i", "l">>, <<"b", "a", "d">>),
                                    ValidationItem(<<"n", "a", "m", "e">>, <<"s", "h", "o", "r", "t">>)>>)])),
      HttpError(Obj([detail |-> Arr(<<Obj([msg |-> Str(<<"b", "a", "d">>)])>>)])),
      HttpError(Obj([detail |-> Obj([code |-> Str(<<"l", "o", "c", "k", "e", "d">>)])])) }

AuthResponses == {AuthSuccess(NewToken)} \cup {AuthFailure(e) : e \in AuthErrors}

----------------------------------------------------------------------------
(* The Books component *)

\* a render threw: with no error boundary React tears the tree down
RenderThrew == filteredBooks = TypeError

\* the page is shown and takes input: mounted, past the loading spinner
Interactive == mounted /\ ~loading /\ ~RenderThrew

Init ==
    /\ mounted = FALSE
    /\ mounts = 0
    /\ books = Arr(<< >>)
    /\ loading = TRUE
    /\ viewMode = "grid"
    /\ searchTerm = EmptyStr
    /\ filteredBooks = Arr(<< >>)
    /\ response = NoResponse
    /\ issued = [i \in Instances |-> 0]
    /\ pending = [i \in Instances |-> 0]
    /\ settled = [i \in Instances |-> "none"]
    /\ toasts = << >>
    /\ tornDownSets = 0
    /\ cards = << >>
    /\ location = "/"
    /\ token = Null
    /\ isLoggedIn = Truthy(token)
    /\ isLogin = TRUE
    /\ isLoading = FALSE
    /\ formData = EmptyForm
    /\ authRequests = << >>
    /\ lastRequest = [n |-> 0, url |-> "", auth |-> Undefined]
    /\ notices = [n |-> 0, last |-> [kind |-> "none", msg |-> Undefined]]
    /\ lastAuth = NoAuth
    /\ rejections = 0

\* toast.success / toast.error: one more notice, and it is the one shown last
Raised(notice) == [n |-> notices.n + 1, last |-> notice]

\* the links the navigation bar shows
NavbarLinks ==
    {"/", "/books", "/recommendations"}
        \cup (IF isLoggedIn THEN {"/dashboard"} ELSE {"/login"})

\* the requests of a login form that is gone: they stay in flight, and their
\* continuations run against the discarded instance
Orphaned(reqs) == [k \in DOMAIN reqs |-> [reqs[k] EXCEPT !.live = FALSE]]

\* the route leaves /login (or was never there): the form instance and its
\* state are discarded
FormUnmounted ==
    /\ isLogin' = TRUE
    /\ isLoading' = FALSE
    /\ formData' = EmptyForm
    /\ authRequests' = Orphaned(authRequests)

\* the route leaves /books (or was never there): the Books instance and its
\* state are discarded; a request in flight stays in flight
BooksUnmounted ==
    /\ mounted' = FALSE
    /\ books' = Arr(<< >>)
    /\ loading' = TRUE
    /\ viewMode' = "grid"
    /\ searchTerm' = EmptyStr
    /\ filteredBooks' = Arr(<< >>)
    /\ response' = NoResponse
    /\ cards' = << >>

\* first render of a new instance (the useState initial values), then the
\* effect with the empty dependency list runs fetchBooks up to its await
Mount ==
    /\ ~mounted
    /\ ~RenderThrew
    /\ mounts < MaxMounts
    /\ mounted' = TRUE
    /\ mounts' = mounts + 1
    /\ books' = Arr(<< >>)
    /\ loading' = TRUE
    /\ viewMode' = "grid"
    /\ searchTerm' = EmptyStr
    /\ filteredBooks' = FilterBooks(books', searchTerm')
    /\ response' = NoResponse
    /\ issued' = [issued EXCEPT ![mounts + 1] = @ + 1]
    /\ pending' = [pending EXCEPT ![mounts + 1] = @ + 1]
    /\ cards' = Cards(filteredBooks', loading')
    /\ location' = "/books"
    /\ lastRequest' = Sent("/books")
    /\ FormUnmounted
    /\ UNCHANGED <<settled, toasts, tornDownSets, sessionVars, notices,
                   lastAuth, rejections>>

\* getAll() of the mounted instance settles: fetchBooks resumes, sets the
\* catalog, clears the loading flag, and the component renders again (the
\* setBooks and setLoading calls of one resumption are batched into one
\* render, as React 18 does for updates made after an await)
Settle(resp) ==
    /\ mounted
    /\ pending[mounts] > 0
    /\ pending' = [pending EXCEPT ![mounts] = @ - 1]
    /\ settled' = [settled EXCEPT ![mounts] = resp.why]
    /\ response' = resp
    /\ books' = FetchBooks(resp).books
    /\ toasts' = toasts \o FetchBooks(resp).notices
    /\ loading' = FALSE
    /\ filteredBooks' = FilterBooks(books', searchTerm)
    /\ cards' = Cards(filteredBooks', loading')
    /\ UNCHANGED <<mounted, mounts, viewMode, searchTerm, issued, tornDownSets>>
    /\ UNCHANGED appVars

\* getAll() of an instance that was unmounted settles: nothing cancelled it,
\* so fetchBooks resumes and calls setBooks and setLoading on the dead instance
SettleTornDown(i, resp) ==
    /\ pending[i] > 0
    /\ ~(mounted /\ i = mounts)
    /\ pending' = [pending EXCEPT ![i] = @ - 1]
    /\ settled' = [settled EXCEPT ![i] = resp.why]
    /\ toasts' = toasts \o FetchBooks(resp).notices
    /\ tornDownSets' = tornDownSets + 2
    /\ UNCHANGED <<mounted, mounts, books, loading, viewMode, searchTerm,
                   filteredBooks, response, issued, cards>>
    /\ UNCHANGED appVars

\* SetSearchTerm with the effect depending on [searchTerm]: each change of
\* the term runs fetchBooks again
SetSearchTermRefetching(t) ==
    /\ Interactive
    /\ t # searchTerm
    /\ issued[mounts] < 2
    /\ searchTerm' = t
    /\ filteredBooks' = FilterBooks(books, searchTerm')
    /\ issued' = [issued EXCEPT ![mounts] = @ + 1]
    /\ pending' = [pending EXCEPT ![mounts] = @ + 1]
    /\ cards' = Cards(filteredBooks', loading)
    /\ lastRequest' = Sent("/books")
    /\ UNCHANGED <<mounted, mounts, books, loading, viewMode, response,
                   settled, toasts, tornDownSets>>
    /\ UNCHANGED <<location, sessionVars, formVars, authVars>>

\* SetSearchTerm maintaining the view incrementally: the previous filtered
\* result is filtered by the new term
SetSearchTermNarrowing(t) ==
    /\ Interactive
    /\ t # searchTerm
    /\ searchTerm' = t
    /\ filteredBooks' = FilterBooks(filteredBooks, searchTerm')
    /\ cards' = Cards(filteredBooks', loading)
    /\ UNCHANGED <<mounted, mounts, books, loading, viewMode, response,
                   issued, pending, settled, toasts, tornDownSets>>
    /\ UNCHANGED appVars

\* onChange of the search input
SetSearchTerm(t) ==
    /\ Interactive
    /\ t # searchTerm
    /\ searchTerm' = t
    /\ filteredBooks' = FilterBooks(books, searchTerm')
    /\ cards' = Cards(filteredBooks', loading)
    /\ UNCHANGED <<mounted, mounts, books, loading, viewMode, response,
                   issued, pending, settled, toasts, tornDownSets>>
    /\ UNCHANGED appVars

\* the "Clear Search" button of the empty-result panel
ClearSearch ==
    /\ Interactive
    /\ Len(filteredBooks.v) = 0
    /\ Truthy(searchTerm)
    /\ searchTerm' = EmptyStr
    /\ filteredBooks' = FilterBooks(books, searchTerm')
    /\ cards' = Cards(filteredBooks', loading)
    /\ UNCHANGED <<mounted, mounts, books, loading, viewMode, response,
                   issued, pending, settled, toasts, tornDownSets>>
    /\ UNCHANGED appVars

\* the grid / list buttons
SetViewMode(m) ==
    /\ Interactive
    /\ viewMode' = m
    /\ filteredBooks' = FilterBooks(books, searchTerm)
    /\ cards' = Cards(filteredBooks', loading)
    /\ UNCHANGED <<mounted, mounts, books, loading, searchTerm, response,
                   issued, pending, settled, toasts, tornDownSets>>
    /\ UNCHANGED appVars

\* Unmount aborting the request of the instance that goes away
UnmountCancelling ==
    /\ mounted
    /\ ~RenderThrew
    /\ \E p \in NavbarLinks \ {"/books"} : location' = p
    /\ BooksUnmounted
    /\ pending' = [pending EXCEPT ![mounts] = 0]
    /\ UNCHANGED <<mounts, issued, settled, toasts, tornDownSets>>
    /\ UNCHANGED <<sessionVars, formVars, authVars, lastRequest>>

\* navigation away from /books by a link of the navigation bar: the instance
\* and its state are discarded; a request in flight stays in flight
Unmount ==
    /\ mounted
    /\ ~RenderThrew
    /\ \E p \in NavbarLinks \ {"/books"} : location' = p
    /\ BooksUnmounted
    /\ UNCHANGED <<mounts, issued, pending, settled, toasts, tornDownSets>>
    /\ UNCHANGED <<sessionVars, formVars, authVars, lastRequest>>

----------------------------------------------------------------------------
(* Navigation, the login form and the navigation bar *)

\* a link to a page other than /books is followed while Books is not shown:
\* the links of the navigation bar, and the links of the home page to /login
Navigate(p) ==
    /\ ~mounted
    /\ ~RenderThrew
    /\ p \notin {"/books", location}
    /\ p \in NavbarLinks \/ (location = "/" /\ p = "/login")
    /\ location' = p
    /\ FormUnmounted
    /\ UNCHANGED <<booksView, booksLog, sessionVars, lastRequest, notices,
                   lastAuth, rejections>>

\* the fields the form shows: name and phone only when registering
ShownFields == IF isLogin THEN {"email", "password"} ELSE DOMAIN EmptyForm

\* the fields marked required
RequiredFields == IF isLogin THEN {"email", "password"} ELSE {"email", "password", "name"}

\* handleChange of an input; the inputs are disabled while isLoading
EditField(k, v) ==
    /\ location = "/login"
    /\ ~isLoading
    /\ k \in ShownFields
    /\ formData[k] # v
    /\ formData' = [formData EXCEPT ![k] = v]
    /\ UNCHANGED <<booksView, booksLog, location, sessionVars, isLogin,
                   isLoading, authVars, lastRequest>>

\* ToggleMode without the isLoading test of the handler and of the button
ToggleModeWhileLoading ==
    /\ location = "/login"
    /\ isLogin' = ~isLogin
    /\ formData' = EmptyForm
    /\ UNCHANGED <<booksView, booksLog, location, sessionVars, isLoading,
                   authVars, lastRequest>>

\* the "Sign up" / "Sign in" button under the form
ToggleMode ==
    /\ location = "/login"
    /\ ~isLoading
    /\ isLogin' = ~isLogin
    /\ formData' = EmptyForm
    /\ UNCHANGED <<booksView, booksLog, location, sessionVars, isLoading,
                   authVars, lastRequest>>

\* handleSubmit up to its await: the browser submits only when the required
\* fields are filled, and the submit button is disabled while isLoading
Submit ==
    /\ location = "/login"
    /\ ~isLoading
    /\ \A k \in RequiredFields : formData[k] # EmptyStr
    /\ Len(authRequests) < MaxSubmits
    /\ isLoading' = TRUE
    /\ authRequests' = Append(authRequests,
            [mode |-> IF isLogin THEN "login" ELSE "register",
             live |-> TRUE, open |-> TRUE])
    /\ lastRequest' = Sent(AuthUrl(IF isLogin THEN "login" ELSE "register"))
    /\ UNCHANGED <<booksView, booksLog, location, sessionVars, isLogin,
                   formData, notices, lastAuth, rejections>>

\* the token handleSubmit stores from a 2xx answer
AccessToken(resp) == Stored(Get(resp.data, "access_token"))

\* the notice handleSubmit raises for a 2xx answer to a request of this mode
SuccessNotice(mode) ==
    [kind |-> "success",
     msg |-> IF mode = "login" THEN LoginSuccessful ELSE RegistrationSuccessful]

\* AuthSettle storing the token whatever the answer was
AuthSettleStoringAlways(k, resp) ==
    /\ k \in DOMAIN authRequests
    /\ authRequests[k].open
    /\ ~RenderThrew
    /\ lastAuth' = Outcome(resp)
    /\ token' = IF resp.ok THEN AccessToken(resp) ELSE NewToken
    /\ IF resp.ok
       THEN /\ notices' = Raised(SuccessNotice(authRequests[k].mode))
            /\ location' = "/dashboard"
            /\ BooksUnmounted
            /\ isLogin' = TRUE
            /\ isLoading' = FALSE
            /\ formData' = EmptyForm
            /\ authRequests' = Orphaned([authRequests EXCEPT ![k].open = FALSE])
            /\ UNCHANGED <<isLoggedIn, rejections>>
       ELSE /\ IF ErrorMessage(resp.error) = TypeError
               THEN rejections' = rejections + 1 /\ notices' = notices
               ELSE /\ notices' = Raised([kind |-> "error",
                                             msg |-> ErrorMessage(resp.error)])
                    /\ rejections' = rejections
            /\ isLoading' = IF authRequests[k].live THEN FALSE ELSE isLoading
            /\ authRequests' = [authRequests EXCEPT ![k].open = FALSE]
            /\ UNCHANGED <<booksView, location, isLoggedIn, isLogin, formData>>
    /\ UNCHANGED <<booksLog, lastRequest>>

\* the auth request k settles and handleSubmit resumes. A 2xx answer: the
\* token is stored, the success notice raised, and navigate('/dashboard')
\* replaces whatever page is shown. A rejection: the catch block raises the
\* error notice, or throws itself and the promise of handleSubmit rejects.
\* finally: setIsLoading(false), which acts only on a form still mounted.
AuthSettle(k, resp) ==
    /\ k \in DOMAIN authRequests
    /\ authRequests[k].open
    /\ ~RenderThrew
    /\ lastAuth' = Outcome(resp)
    /\ IF resp.ok
       THEN /\ token' = AccessToken(resp)
            /\ notices' = Raised(SuccessNotice(authRequests[k].mode))
            /\ location' = "/dashboard"
            /\ BooksUnmounted
            /\ isLogin' = TRUE
            /\ isLoading' = FALSE
            /\ formData' = EmptyForm
            /\ authRequests' = Orphaned([authRequests EXCEPT ![k].open = FALSE])
            /\ UNCHANGED <<isLoggedIn, rejections>>
       ELSE /\ IF ErrorMessage(resp.error) = TypeError
               THEN rejections' = rejections + 1 /\ notices' = notices
               ELSE /\ notices' = Raised([kind |-> "error",
                                             msg |-> ErrorMessage(resp.error)])
                    /\ rejections' = rejections
            /\ isLoading' = IF authRequests[k].live THEN FALSE ELSE isLoading
            /\ authRequests' = [authRequests EXCEPT ![k].open = FALSE]
            /\ UNCHANGED <<booksView, location, token, isLoggedIn, isLogin, formData>>
    /\ UNCHANGED <<booksLog, lastRequest>>

\* handleLogout of the navigation bar; the button is shown when isLoggedIn
Logout ==
    /\ isLoggedIn
    /\ ~RenderThrew
    /\ token' = Null
    /\ isLoggedIn' = FALSE
    /\ notices' = Raised([kind |-> "success", msg |-> LoggedOut])
    /\ location' = "/"
    /\ BooksUnmounted
    /\ FormUnmounted
    /\ UNCHANGED <<booksLog, lastRequest, lastAuth, rejections>>

Next ==
    \/ Mount
    \/ \E resp \in Responses : Settle(resp)
    \/ \E i \in Instances, resp \in Responses : SettleTornDown(i, resp)
    \/ \E t \in SearchTerms : SetSearchTerm(t)
    \/ ClearSearch
    \/ \E m \in ViewModes : SetViewMode(m)
    \/ Unmount

Spec == Init /\ [][Next]_vars

\* The whole application, used for signing in: the catalog endpoint answers
\* with one record or not at all, the form stays in its sign-in mode, and the
\* auth endpoint accepts or is unreachable. The page may be opened with a
\* token already stored.
AppResponses == {Success(Arr(<<Dune>>)), Failure("network")}

AppAuthResponses == {AuthSuccess(NewToken), AuthFailure(NetworkError)}

Filled == Str(<<"x">>)

AppInit ==
    /\ mounted = FALSE
    /\ mounts = 0
    /\ books = Arr(<< >>)
    /\ loading = TRUE
    /\ viewMode = "grid"
    /\ searchTerm = EmptyStr
    /\ filteredBooks = Arr(<< >>)
    /\ response = NoResponse
    /\ issued = [i \in Instances |-> 0]
    /\ pending = [i \in Instances |-> 0]
    /\ settled = [i \in Instances |-> "none"]
    /\ toasts = << >>
    /\ tornDownSets = 0
    /\ cards = << >>
    /\ location = "/"
    /\ token \in {Null, OldToken}
    /\ isLoggedIn = Truthy(token)
    /\ isLogin = TRUE
    /\ isLoading = FALSE
    /\ formData = EmptyForm
    /\ authRequests = << >>
    /\ lastRequest = [n |-> 0, url |-> "", auth |-> Undefined]
    /\ notices = [n |-> 0, last |-> [kind |-> "none", msg |-> Undefined]]
    /\ lastAuth = NoAuth
    /\ rejections = 0

AppNext ==
    \/ Mount
    \/ \E resp \in AppResponses : Settle(resp)
    \/ \E i \in Instances, resp \in AppResponses : SettleTornDown(i, resp)
    \/ Unmount
    \/ \E p \in Paths : Navigate(p)
    \/ \E k \in {"email", "password"} : EditField(k, Filled)
    \/ Submit
    \/ \E k \in 1..MaxSubmits, resp \in AppAuthResponses : AuthSettle(k, resp)
    \/ Logout

AppSpec == AppInit /\ [][AppNext]_vars

\* The login form in both modes with every field, against every answer of
\* the auth endpoints; the catalog page is not visited.
FormNext ==
    \/ \E p \in Paths : Navigate(p)
    \/ \E k \in DOMAIN EmptyForm, val \in FieldValues : EditField(k, val)
    \/ ToggleMode
    \/ Submit
    \/ \E k \in 1..MaxSubmits, resp \in AuthResponses : AuthSettle(k, resp)
    \/ Logout

FormSpec == AppInit /\ [][FormNext]_vars

----------------------------------------------------------------------------
(* Vocabulary of the properties *)

\* the catalog of the mounted instance has been loaded
Loaded == mounted /\ ~loading

\* the step in which fetchBooks of the mounted instance finishes
LoadFinishes == mounted /\ loading /\ mounted' /\ ~loading'

NonEmptyArray(x) == x.t = "array" /\ Len(x.v) > 0

Failed(why) == why \in {"network", "non-2xx"}

TextFields == {"title", "author", "genre"}

\* a BookRecord of the data model: an object whose title, author and genre
\* are each a string or absent (missing or null)
IsBookRecord(e) ==
    /\ e.t = "object"
    /\ \A k \in TextFields : k \in DOMAIN e.v => e.v[k].t \in {"string", "null"}

IsCatalog(c) == c.t = "array" /\ \A k \in 1..Len(c.v) : IsBookRecord(c.v[k])

\* t occurs in s when letter case is ignored
ContainsIgnoringCase(s, t) ==
    \E i \in 0..(Len(s) - Len(t)) :
        \A j \in 1..Len(t) : LowerChar(s[i + j]) = LowerChar(t[j])

\* one of the three text fields is present and contains the term
Wanted(e, term) ==
    /\ e.t = "object"
    /\ \E k \in TextFields :
        /\ k \in DOMAIN e.v
        /\ e.v[k].t = "string"
        /\ ContainsIgnoringCase(e.v[k].v, term.v)

\* the wanted records of c, in the order of c
WantedSubsequence(c, term) ==
    LET Keep(e) == Wanted(e, term)
    IN  Arr(SelectSeq(c.v, Keep))

Tolkien == Str(<<"t", "o", "l", "k", "i", "e", "n">>)

----------------------------------------------------------------------------
(* C1 *)

\* C1: a successful response whose body is a non-empty array becomes the
\* catalog as it is (same records, same order), whatever else the body could
\* be read as, and the step that loads it raises no notice.
C1_FlatArrayVerbatim ==
    /\ [](Loaded /\ response.ok /\ NonEmptyArray(response.data)
            => books = response.data)
    /\ [][(LoadFinishes /\ response'.ok /\ NonEmptyArray(response'.data))
            => (books' = response'.data /\ toasts' = toasts)]_vars

\* the scenario of the specification: [{id:1, title:"Dune", ...}] is loaded
C1_Witness ==
    /\ Loaded
    /\ response = Success(Arr(<<Dune>>))
    /\ books = Arr(<<Dune>>)
    /\ filteredBooks = Arr(<<Dune>>)
    /\ toasts = << >>

----------------------------------------------------------------------------
(* C2 *)

\* C2: when the body is not a non-empty array, the catalog is body.books if
\* and only if body.books is a non-empty array; a `books` field of any other
\* type is never the catalog, and the built-in dataset is used instead.
C2_NestedOnlyWhenArray ==
    (Loaded /\ response.ok /\ ~NonEmptyArray(response.data)) =>
        LET b == OptGet(response.data, "books")
        IN  books = IF NonEmptyArray(b) THEN b ELSE MOCK_BOOKS

----------------------------------------------------------------------------
(* C3 *)

EmptyBodies ==
    {Arr(<< >>), Obj(<< >>), Null, Undefined, Obj([books |-> Arr(<< >>)])}

\* C3: a successful response whose body is [], {}, missing or null, or
\* {books: []} loads the built-in dataset of 6 records, "The Great Gatsby"
\* first and "Harry Potter and the Philosopher's Stone" last, and the step
\* that loads it raises no notice.
C3_EmptyBodyFallsBack ==
    /\ [](Loaded /\ response.ok /\ response.data \in EmptyBodies
            => /\ books = MOCK_BOOKS
               /\ Len(books.v) = 6
               /\ Get(books.v[1], "title") =
                    Str(<<"T", "h", "e", " ", "G", "r", "e", "a", "t", " ",
                          "G", "a", "t", "s", "b", "y">>)
               /\ Get(books.v[6], "title") =
                    Str(<<"H", "a", "r", "r", "y", " ", "P", "o", "t", "t", "e", "r",
                          " ", "a", "n", "d", " ", "t", "h", "e", " ",
                          "P", "h", "i", "l", "o", "s", "o", "p", "h", "e", "r", "'", "s",
                          " ", "S", "t", "o", "n", "e">>))
    /\ [][(LoadFinishes /\ response'.ok /\ response'.data \in EmptyBodies)
            => toasts' = toasts]_vars

\* {books: []} was answered and the six records are shown, no notice raised
C3_Witness ==
    /\ Loaded
    /\ response = Success(Obj([books |-> Arr(<< >>)]))
    /\ books = MOCK_BOOKS
    /\ Len(filteredBooks.v) = 6
    /\ toasts = << >>

----------------------------------------------------------------------------
(* C4 *)

\* C4: whenever getAll() fails (transport failure or non-2xx status) the
\* catalog is the built-in dataset and exactly one notice, "Using demo data.
\* Backend connection failed.", is raised; no other step raises a notice.
C4_FailureFallsBackWithOneNotice ==
    /\ [](\A k \in 1..Len(toasts) :
            toasts[k] = "Using demo data. Backend connection failed.")
    /\ [](Len(toasts) = Cardinality({i \in Instances : Failed(settled[i])}))
    /\ [](Loaded /\ ~response.ok => books = MOCK_BOOKS)
    /\ [][(\E i \in Instances : settled[i] = "none" /\ Failed(settled'[i]))
            => toasts' = Append(toasts, "Using demo data. Backend connection failed.")]_vars
    /\ [][toasts' # toasts
            => \E i \in Instances : settled[i] = "none" /\ Failed(settled'[i])]_vars

\* the request of the mounted instance failed with a non-2xx status
C4_Witness ==
    /\ Loaded
    /\ response = Failure("non-2xx")
    /\ books = MOCK_BOOKS
    /\ toasts = <<"Using demo data. Backend connection failed.">>

----------------------------------------------------------------------------
(* C5 *)

\* C5: in one mount the loader goes Idle -> Loading -> Loaded: every instance
\* issues exactly one getAll(), never has two in flight, and once it is
\* Loaded no step of that mount (search, view mode, re-render) starts a load,
\* sets the loading flag again or changes the catalog.
C5_OneLoadPerMount ==
    /\ [](\A i \in Instances :
            /\ issued[i] = IF i <= mounts THEN 1 ELSE 0
            /\ pending[i] <= 1)
    /\ [](mounted /\ loading => pending[mounts] = 1)
    /\ [](Loaded => pending[mounts] = 0)
    /\ [][(Loaded /\ mounted' /\ mounts' = mounts)
            => /\ books' = books
               /\ loading' = loading
               /\ issued' = issued
               /\ pending'[mounts] = 0]_vars

\* a loaded instance after a search and a view-mode change
C5_Witness ==
    /\ Loaded
    /\ searchTerm = Tolkien
    /\ viewMode = "list"
    /\ books = Arr(<<Dune, MockBook5>>)
    /\ issued[mounts] = 1
    /\ pending[mounts] = 0

----------------------------------------------------------------------------
(* C6 *)

\* C6: whatever the request yields (a failure or any body), neither
\* fetchBooks nor the computation of filteredBooks throws.
C6_NothingThrows == filteredBooks # TypeError

----------------------------------------------------------------------------
(* C7 *)

\* C7: filteredBooks is exactly the subsequence of the catalog, in catalog
\* order, of the records with a present title, author or genre containing
\* the term, case ignored (an absent field matches nothing); it is defined
\* on every catalog of book records; the built-in dataset filtered by
\* "tolkien" is the single record "The Hobbit"; an empty catalog filters to
\* the empty sequence.
C7_FilterIsMatchingSubsequence ==
    /\ IsCatalog(books) => filteredBooks # TypeError
    /\ filteredBooks # TypeError
         => IsArray(books) /\ filteredBooks = WantedSubsequence(books, searchTerm)
    /\ (books = MOCK_BOOKS /\ searchTerm = Tolkien)
         => filteredBooks = Arr(<<MockBook5>>)
    /\ books = Arr(<< >>) => filteredBooks = Arr(<< >>)

\* the built-in dataset searched for "tolkien"
C7_Witness ==
    /\ Loaded
    /\ books = MOCK_BOOKS
    /\ searchTerm = Tolkien
    /\ filteredBooks = Arr(<<MockBook5>>)

----------------------------------------------------------------------------
(* C8 *)

\* C8: with the empty search term the filter returns the whole catalog,
\* same members in the same order, also when a record has no title, no
\* author and no genre.
C8_EmptyTermIsIdentity ==
    (Loaded /\ IsCatalog(books) /\ searchTerm = EmptyStr) => filteredBooks = books

----------------------------------------------------------------------------
(* C9 *)

\* C9: filtering the filtered result again by the same term changes nothing.
C9_FilterIdempotent ==
    filteredBooks # TypeError
        => FilterBooks(filteredBooks, searchTerm) = filteredBooks

\* a search that keeps some records of the catalog and drops others
C9_Witness ==
    /\ Loaded
    /\ searchTerm # EmptyStr
    /\ filteredBooks # TypeError
    /\ Len(filteredBooks.v) > 0
    /\ Len(filteredBooks.v) < Len(books.v)

----------------------------------------------------------------------------
(* C10 *)

\* C10: a change of the search term (typing or "Clear Search") within a
\* mount leaves the catalog, the loading flag and the view mode as they
\* were, and the filtered view is the filter of the full catalog by the new
\* term; in every state the filtered view is the filter of the catalog by
\* the current term.
C10_SearchLeavesCatalogAlone ==
    /\ [](filteredBooks = FilterBooks(books, searchTerm))
    /\ [][(mounted /\ mounted' /\ mounts' = mounts /\ searchTerm' # searchTerm)
            => /\ books' = books
               /\ loading' = loading
               /\ viewMode' = viewMode
               /\ filteredBooks' = FilterBooks(books, searchTerm')]_vars

\* in list view, "DUNE" typed over a two-record catalog: one record is shown
C10_Witness ==
    /\ Loaded
    /\ viewMode = "list"
    /\ books = Arr(<<MockBook5, Dune>>)
    /\ searchTerm = Str(<<"D", "U", "N", "E">>)
    /\ filteredBooks = Arr(<<Dune>>)

----------------------------------------------------------------------------
(* C14 *)

\* C14: nothing cancels or times out the catalog request. The step that
\* unmounts the Books view leaves every request in flight, a request stops
\* being in flight only by settling, and when the request of an unmounted
\* instance settles, fetchBooks makes its two setter calls (catalog and
\* loading flag) on that instance.
C14_UnmountedLoadStillRuns ==
    /\ [][(mounted /\ ~mounted') => pending' = pending]_vars
    /\ [][\A i \in Instances :
            pending'[i] < pending[i] =>
                /\ settled'[i] # "none"
                /\ ~(mounted /\ i = mounts) => tornDownSets' = tornDownSets + 2]_vars

\* the view was left while loading, and its request settled afterwards
C14_Witness ==
    /\ ~mounted
    /\ mounts = 1
    /\ pending[1] = 0
    /\ settled[1] = "2xx"
    /\ tornDownSets = 2

----------------------------------------------------------------------------
(* C15 *)

Id(e) == Get(e, "id")

\* C15: in every Loaded state whose catalog is a sequence of book records,
\* whichever branch set it, no two records have the same identifier; the
\* built-in dataset has the identifiers 1 to 6 in this order.
C15_IdsPairwiseDistinct ==
    /\ [k \in 1..6 |-> Id(MOCK_BOOKS.v[k])] = [k \in 1..6 |-> Num(k)]
    /\ (Loaded /\ IsCatalog(books)) =>
            \A i, j \in 1..Len(books.v) :
                i # j => Id(books.v[i]) # Id(books.v[j])

----------------------------------------------------------------------------
(* C16 *)

\* the rating of a record in tenths when it has one
HasRating(e) == "rating" \in DOMAIN e.v /\ e.v["rating"].t = "number"

FourPointZero == Str(<<"4", ".", "0">>)

\* C16: every card of the rendered page shows the rating of its record when
\* the record has one (0 included), with floor(rating) filled stars, and
\* shows "4.0" with 4 filled stars when the record has none.
C16_CardShowsOwnRating ==
    \A k \in 1..Len(cards) :
        LET e == filteredBooks.v[k]
        IN  IF HasRating(e)
            THEN /\ cards[k].label = Str(ToFixed1(e.v["rating"].v))
                 /\ cards[k].stars = e.v["rating"].v \div 10
            ELSE /\ cards[k].label = FourPointZero
                 /\ cards[k].stars = 4

----------------------------------------------------------------------------
(* C17 *)

\* C17: whenever the Books view is mounted with the loading flag cleared,
\* the catalog has been set by the load that cleared the flag and is a
\* sequence with at least one record.
C17_LoadedCatalogNonEmpty ==
    Loaded => (books = FetchBooks(response).books /\ NonEmptyArray(books))

----------------------------------------------------------------------------
(* Vocabulary of the session properties *)

\* the header value "Bearer <tok>"
BearerOf(tok) == Str(<<"B", "e", "a", "r", "e", "r", " ">> \o tok.v)

\* a request leaves the client in this step
RequestIssued == lastRequest'.n # lastRequest.n

\* the auth request k settles in this step
AuthSettles(k) ==
    /\ k \in DOMAIN authRequests
    /\ authRequests[k].open
    /\ ~authRequests'[k].open

SomeAuthSettles == \E k \in DOMAIN authRequests : AuthSettles(k)

\* the form's own request (not one of a form that is gone) settles
LiveAuthSettles ==
    \E k \in DOMAIN authRequests : AuthSettles(k) /\ authRequests[k].live

\* a step of the catalog loader: getAll() is issued or settles
LoaderStep == issued' # issued \/ pending' # pending

----------------------------------------------------------------------------
(* C11 *)

\* C11: every request that leaves the client carries "Authorization: Bearer
\* <token>" for the token stored at that moment and no Authorization header
\* when none is stored, so no request issued after a logout carries the
\* token that was removed; issuing a request never changes the stored token.
C11_RequestCarriesCurrentToken ==
    [][RequestIssued =>
        /\ lastRequest'.auth = (IF token = Null THEN Undefined ELSE BearerOf(token))
        /\ token' = token]_vars

\* the page was opened with a stored token, the user logged out and then
\* opened the catalog: its request carries no Authorization header
C11_Witness ==
    /\ notices.last.msg = LoggedOut
    /\ mounted
    /\ lastRequest.url = "/books"
    /\ lastRequest.auth = Undefined

----------------------------------------------------------------------------
(* C12 *)

\* C12: the stored token changes only when a login or register request
\* succeeds (it becomes the access token of the answer, and the route
\* becomes /dashboard) or on logout (it is removed); a failed login or
\* register leaves the token and the route as they were, and no step of the
\* catalog loader changes the token.
C12_TokenWrittenOnlyBySession ==
    /\ [][token' # token =>
            \/ /\ SomeAuthSettles
               /\ lastAuth'.why = "2xx"
            \/ /\ token' = Null
               /\ notices'.n = notices.n + 1
               /\ notices'.last.msg = LoggedOut]_vars
    /\ [][(SomeAuthSettles /\ lastAuth'.why = "2xx") =>
            /\ token' = lastAuth'.token
            /\ location' = "/dashboard"]_vars
    /\ [][(SomeAuthSettles /\ lastAuth'.why = "rejected") =>
            /\ token' = token
            /\ location' = location]_vars
    /\ [][LoaderStep => token' = token]_vars

\* a login replaced the token the page was opened with, seen from the
\* catalog page that was opened afterwards
C12_Witness ==
    /\ token = NewToken
    /\ notices.last.msg = LoginSuccessful
    /\ mounted
    /\ lastRequest.auth = BearerOf(NewToken)

----------------------------------------------------------------------------
(* C18 *)

\* C18: in every state the navigation bar's isLoggedIn is true exactly when
\* a token is stored.
C18_NavbarTracksToken == isLoggedIn <=> token # Null

----------------------------------------------------------------------------
(* C13 *)

EmailBadNameShort ==
    Str(<<"e", "m", "a", "i", "l", ":", " ", "b", "a", "d", ",", " ",
          "n", "a", "m", "e", ":", " ", "s", "h", "o", "r", "t">>)

\* C13: every failed login or register raises one error notice (the catch
\* block never throws instead), the message of an error notice is a string,
\* never an object, and an array `detail` is shown as its "<field>: <msg>"
\* items joined by ", ".
C13_ErrorNoticeIsOneString ==
    /\ rejections = 0
    /\ notices.last.kind = "error" => notices.last.msg.t = "string"
    /\ \A e \in AuthErrors :
        LET detail == OptGet(OptGet(Get(e, "response"), "data"), "detail")
        IN  (IsArray(detail) /\ \A k \in 1..Len(detail.v) : "loc" \in DOMAIN detail.v[k].v)
                => ErrorMessage(e) = EmailBadNameShort

----------------------------------------------------------------------------
(* C19 *)

\* C19: isLoading is true exactly while the form's own request is in
\* flight. While isLoading no further auth request is issued and neither the
\* mode nor the form data change, so the endpoint of the request and the
\* success notice are those of the mode the form shows. A change of mode on
\* the login page happens only when idle and empties all four fields.
C19_OneRequestPerSubmit ==
    /\ [](isLoading <=> \E k \in DOMAIN authRequests :
                            authRequests[k].open /\ authRequests[k].live)
    /\ [][isLoading => Len(authRequests') = Len(authRequests)]_vars
    /\ [][(isLoading /\ isLoading') =>
            (isLogin' = isLogin /\ formData' = formData)]_vars
    /\ [][Len(authRequests') > Len(authRequests) =>
            /\ isLoading'
            /\ lastRequest'.url = (IF isLogin THEN "/auth/login" ELSE "/auth/register")]_vars
    /\ [][LiveAuthSettles =>
            /\ isLoading /\ ~isLoading'
            /\ lastRequest.url = (IF isLogin THEN "/auth/login" ELSE "/auth/register")
            /\ lastAuth'.why = "2xx" =>
                notices'.last.msg =
                    (IF isLogin THEN LoginSuccessful ELSE RegistrationSuccessful)]_vars
    /\ [][(location = "/login" /\ location' = "/login" /\ isLogin' # isLogin) =>
            /\ ~isLoading
            /\ formData' = EmptyForm]_vars

\* a registration is in flight from a form with all four fields filled,
\* after an earlier request of this form had failed
C19_Witness ==
    /\ isLoading
    /\ ~isLogin
    /\ \A k \in DOMAIN formData : formData[k] # EmptyStr
    /\ Len(authRequests) = 2
    /\ authRequests[1].live
    /\ lastRequest.url = "/auth/register"
    /\ notices.last.kind = "error"

============================================================================
